---- MODULE Spec2Model ----
(***************************************************************************)
(* Caspar Autosync server (src/index.js): the controller that keeps the    *)
(* playback slots of remote CasparCG servers on one clock.                 *)
(*                                                                         *)
(* The server is one Node.js event loop.  Every HTTP handler and every     *)
(* firing of the autosync interval is an async function; it runs           *)
(* synchronously up to its next `await conn.do(...)` and is resumed when   *)
(* the reply of that command arrives.  A task of the model is one such     *)
(* running async function; one step of the model is one resumption: the    *)
(* reply comes in (ok or error), the code runs to the next await and the   *)
(* next command is handed to the connection.                               *)
(***************************************************************************)
EXTENDS Integers, Sequences, FiniteSets, TLC

\* ---------------------------------------------------------------- bounds

\* Concurrent async functions (HTTP handlers, interval callbacks) in flight.
MaxTasks == 2
\* Length of config.slots in the sequential specifications.
MaxSlots == 3
\* Length of config.slots in the concurrent specification.
ConcSlots == 1
\* The clock (Date.now(), in milliseconds) is read at MaxNow instants, one
\* second apart.
MaxNow == 2
\* Frames a remote reports for CALL ... FRAME are 0..MaxFrame.
MaxFrame == 2
\* The same, in the concurrent specification.
ConcFrame == 1

TaskIds == 1..MaxTasks

\* ------------------------------------------------------- values and hosts

\* An optional value (null | v) is the sequence <<>> | <<v>>.
Null == <<>>
Some(v) == <<v>>
IsNull(o) == o = <<>>
Val(o) == o[1]

\* A host string is kept as its list of ':'-separated segments, so that the
\* template `${host}:${port}` and key.split(':') are what the code does.
EmptyHost == <<"">>
HostA == <<"h1">>
HostB == <<"h2">>
\* An IPv6 literal, "fe80::1".
HostV6 == <<"fe80", "", "1">>

\* `${port}`: the decimal text of a port number (NaN prints as "NaN").
PortStr(p) == CASE p = 5250 -> "5250" [] p = 5251 -> "5251" [] OTHER -> "NaN"
\* parseInt(portStr, 10); -1 stands for NaN.
ParseInt(s) == CASE s = "5250" -> 5250 [] s = "5251" -> 5251 [] OTHER -> -1

\* The Map key `${host}:${port}` of a connection, as its segments.
ConnKey(host, port) == host \o <<PortStr(port)>>

\* preloadAll/startAll/pauseAll: const [host, portStr] = key.split(':');
\* getConnection(host, parseInt(portStr, 10)) -> the key of that connection.
SplitConn(key) == ConnKey(<<key[1]>>, ParseInt(key[2]))

AllKeys ==
  {ConnKey(h, 5250) : h \in {HostA, HostB, HostV6}} \cup {SplitConn(ConnKey(HostV6, 5250))}

\* ------------------------------------------------------------------ slots

Slot(en, host, ch, base, clip) ==
  [enabled |-> en, host |-> host, port |-> 5250, channel |-> ch,
   baseLayer |-> base, clip |-> clip, timecode |-> <<"00", "00", "00", "00">>]

\* Variant: the enabled flag is not looked at.
EffectiveWhenHosted(slot) == slot.host # EmptyHost /\ slot.clip # ""

\* if (slot.enabled === false) continue; if (!slot.host || !slot.clip) continue;
Effective(slot) == slot.enabled /\ slot.host # EmptyHost /\ slot.clip # ""

\* ------------------------------------------------------------- layer pairs

CanonPair(b) == [active |-> b, standby |-> b + 10, baseLayer |-> b]

\* getPair, the test: no entry yet, or an entry made for another baseLayer.
PairStale(cfg, ps, idx) ==
  idx \notin DOMAIN ps \/ ps[idx].baseLayer # cfg.slots[idx].baseLayer

\* getPair(idx): the pair it returns.
getPair(cfg, ps, idx) ==
  IF PairStale(cfg, ps, idx) THEN CanonPair(cfg.slots[idx].baseLayer) ELSE ps[idx]

\* pairState.set(idx, pair)
SetPair(ps, idx, pair) == [j \in DOMAIN ps \cup {idx} |-> IF j = idx THEN pair ELSE ps[j]]

\* getPair(idx): pairState after the call.
getPairState(cfg, ps, idx) ==
  IF PairStale(cfg, ps, idx) THEN SetPair(ps, idx, CanonPair(cfg.slots[idx].baseLayer)) ELSE ps

\* cutTransition / fadeTransition: the pair they return.
SwapPair(pair) == [active |-> pair.standby, standby |-> pair.active, baseLayer |-> pair.baseLayer]

\* --------------------------------------------------------------- timecode

\* A timecode string is written as the sequence of its fields between the
\* colons ("00:03:24:05" is <<"00", "03", "24", "05">>); NoTimecode stands
\* for a value that is no string, or the empty string.
NoTimecode == <<>>

\* parseInt(v, 10) of one field: the number the leading sign and digits
\* give, NaN (Null) when there are none.
parseIntField(v) ==
  CASE v = "00" -> Some(0)
    [] v = "01" -> Some(1)
    [] v = "02" -> Some(2)
    [] v = "03" -> Some(3)
    [] v = "05" -> Some(5)
    [] v = "24" -> Some(24)
    [] v = "-1" -> Some(0 - 1)
    [] v = "1x" -> Some(1)
    [] OTHER -> Null

MsPerSec == 1000

\* A frame rate: the positive number num / den (25, 50, 29.97).
Rat(n, d) == [num |-> n, den |-> d]

\* Variant: a frames field beyond the last frame of a second is cut down.
timecodeToFramesClamped(tc, fps) ==
  IF tc = NoTimecode \/ Len(tc) # 4 THEN 0
  ELSE LET n == [k \in 1..4 |-> parseIntField(tc[k])] IN
       IF \E k \in 1..4 : IsNull(n[k]) THEN 0
       ELSE LET totalSeconds == Val(n[1]) * 3600 + Val(n[2]) * 60 + Val(n[3])
                last == (fps.num \div fps.den) - 1
                ff == IF Val(n[4]) > last THEN last ELSE Val(n[4])
            IN (totalSeconds * fps.num + ff * fps.den) \div fps.den

\* timecodeToFrames(tc, fps)
timecodeToFrames(tc, fps) ==
  IF tc = NoTimecode THEN 0
  ELSE IF Len(tc) # 4 THEN 0
  ELSE LET n == [k \in 1..4 |-> parseIntField(tc[k])] IN
       IF \E k \in 1..4 : IsNull(n[k]) THEN 0
       ELSE LET totalSeconds == Val(n[1]) * 3600 + Val(n[2]) * 60 + Val(n[3])
            IN \* Math.floor(totalSeconds * fps + ff)
               (totalSeconds * fps.num + Val(n[4]) * fps.den) \div fps.den

\* Variant: the elapsed frames are not wrapped.
targetFrameUnwrapped(start, clock, cfg) ==
  IF IsNull(start) THEN 0
  ELSE ((clock - Val(start)) * cfg.fps.num) \div (MsPerSec * cfg.fps.den)

\* targetFrame(): 0 while t0 is null, else
\* Math.floor((((Date.now() - t0) / 1000) * fps) % frames).
targetFrameAt(start, clock, cfg) ==
  IF IsNull(start) THEN 0
  ELSE (((clock - Val(start)) * cfg.fps.num) \div (MsPerSec * cfg.fps.den)) % cfg.frames

\* --------------------------------------------------------------- commands

\* One AMCP command line given to conn.do, with the connection it is given to.
Cmd(conn, verb, ch, layer, clip, val, dur, tween) ==
  [conn |-> conn, verb |-> verb, ch |-> ch, layer |-> layer, clip |-> clip,
   val |-> val, dur |-> dur, tween |-> tween]

Defer(conn) == Cmd(conn, "DEFER", 0, 0, "", 0, 0, "")
Resume(conn) == Cmd(conn, "RESUME", 0, 0, "", 0, 0, "")
LoadBg(conn, ch, layer, clip, frame) == Cmd(conn, "LOADBG", ch, layer, clip, frame, 0, "")
Pause(conn, ch, layer) == Cmd(conn, "PAUSE", ch, layer, "", 0, 0, "")
Play(conn, ch, layer) == Cmd(conn, "PLAY", ch, layer, "", 0, 0, "")
Opacity(conn, ch, layer, v, dur, tween) == Cmd(conn, "OPACITY", ch, layer, "", v, dur, tween)
Volume(conn, ch, layer, v, dur, tween) == Cmd(conn, "VOLUME", ch, layer, "", v, dur, tween)
CallFrame(conn, ch, layer) == Cmd(conn, "CALL", ch, layer, "", 0, 0, "")

\* loadAndPause(conn, ch, layer, clip, frame): its six awaited commands.
loadAndPause(conn, ch, layer, clip, frame) ==
  << Defer(conn),
     LoadBg(conn, ch, layer, clip, frame),
     Pause(conn, ch, layer),
     Opacity(conn, ch, layer, 0, 0, ""),
     Volume(conn, ch, layer, 0, 0, ""),
     Resume(conn) >>

\* Variant: the old active layer is parked with nothing in batch B.
cutTransitionWithoutPark(conn, ch, pair) ==
  << Defer(conn),
     Play(conn, ch, pair.standby),
     Opacity(conn, ch, pair.standby, 1, 0, ""),
     Volume(conn, ch, pair.standby, 1, 0, ""),
     Opacity(conn, ch, pair.active, 0, 0, ""),
     Volume(conn, ch, pair.active, 0, 0, ""),
     Resume(conn),
     Defer(conn),
     Resume(conn),
     Resume(conn) >>

\* cutTransition(conn, ch, pair): batch A, then batch B.
cutTransition(conn, ch, pair) ==
  << Defer(conn),
     Play(conn, ch, pair.standby),
     Opacity(conn, ch, pair.standby, 1, 0, ""),
     Volume(conn, ch, pair.standby, 1, 0, ""),
     Opacity(conn, ch, pair.active, 0, 0, ""),
     Volume(conn, ch, pair.active, 0, 0, ""),
     Resume(conn),
     Defer(conn),
     Pause(conn, ch, pair.active),
     Resume(conn) >>

\* Variant: the old layer is paused in the batch that fades.
fadeTransitionOneBatch(conn, ch, pair, fadeFrames) ==
  << Defer(conn),
     Play(conn, ch, pair.standby),
     Opacity(conn, ch, pair.standby, 1, fadeFrames, "LINEAR"),
     Volume(conn, ch, pair.standby, 1, fadeFrames, "LINEAR"),
     Opacity(conn, ch, pair.active, 0, fadeFrames, "LINEAR"),
     Volume(conn, ch, pair.active, 0, fadeFrames, "LINEAR"),
     Pause(conn, ch, pair.active),
     Resume(conn) >>

\* fadeTransition(conn, ch, pair, fadeFrames): batch A, then batch B.
fadeTransition(conn, ch, pair, fadeFrames) ==
  << Defer(conn),
     Play(conn, ch, pair.standby),
     Opacity(conn, ch, pair.standby, 1, fadeFrames, "LINEAR"),
     Volume(conn, ch, pair.standby, 1, fadeFrames, "LINEAR"),
     Opacity(conn, ch, pair.active, 0, fadeFrames, "LINEAR"),
     Volume(conn, ch, pair.active, 0, fadeFrames, "LINEAR"),
     Resume(conn),
     Defer(conn),
     Pause(conn, ch, pair.active),
     Resume(conn) >>

\* resyncAll: if (mode === 'fade') fadeTransition(...) else cutTransition(...)
transitionPlan(mode, conn, ch, pair, fadeFrames) ==
  IF mode = "fade" THEN fadeTransition(conn, ch, pair, fadeFrames)
  ELSE cutTransition(conn, ch, pair)

\* Index in a transition plan of the RESUME that closes batch A.
BatchAEnd == 7

\* Variant: the standby layer is left audible.
preloadItemLoud(conn, it) ==
  << LoadBg(conn, it.channel, it.pair.active, it.clip, 0),
     Pause(conn, it.channel, it.pair.active),
     Opacity(conn, it.channel, it.pair.active, 0, 0, ""),
     Volume(conn, it.channel, it.pair.active, 1, 0, ""),
     LoadBg(conn, it.channel, it.pair.standby, it.clip, 0),
     Pause(conn, it.channel, it.pair.standby),
     Opacity(conn, it.channel, it.pair.standby, 0, 0, ""),
     Volume(conn, it.channel, it.pair.standby, 1, 0, "") >>

\* preloadAll: the eight commands of one item.
preloadItem(conn, it) ==
  << LoadBg(conn, it.channel, it.pair.active, it.clip, 0),
     Pause(conn, it.channel, it.pair.active),
     Opacity(conn, it.channel, it.pair.active, 0, 0, ""),
     Volume(conn, it.channel, it.pair.active, 1, 0, ""),
     LoadBg(conn, it.channel, it.pair.standby, it.clip, 0),
     Pause(conn, it.channel, it.pair.standby),
     Opacity(conn, it.channel, it.pair.standby, 0, 0, ""),
     Volume(conn, it.channel, it.pair.standby, 0, 0, "") >>

\* startAll: the ten commands of one item.
startItem(conn, it) ==
  << LoadBg(conn, it.channel, it.pair.active, it.clip, it.startFrame),
     Pause(conn, it.channel, it.pair.active),
     LoadBg(conn, it.channel, it.pair.standby, it.clip, it.startFrame),
     Pause(conn, it.channel, it.pair.standby),
     Opacity(conn, it.channel, it.pair.active, 0, 0, ""),
     Opacity(conn, it.channel, it.pair.standby, 0, 0, ""),
     Volume(conn, it.channel, it.pair.active, 1, 0, ""),
     Volume(conn, it.channel, it.pair.standby, 0, 0, ""),
     Play(conn, it.channel, it.pair.active),
     Opacity(conn, it.channel, it.pair.active, 1, 0, "") >>

\* Variant: only the active layer is paused.
pauseItemActiveOnly(conn, it) ==
  << Pause(conn, it.channel, it.pair.active) >>

\* pauseAll: the two commands of one item.
pauseItem(conn, it) ==
  << Pause(conn, it.channel, it.pair.active),
     Pause(conn, it.channel, it.pair.standby) >>

itemCommands(kind, conn, it) ==
  CASE kind = "preload" -> preloadItem(conn, it)
    [] kind = "start" -> startItem(conn, it)
    [] OTHER -> pauseItem(conn, it)

\* ---------------------------------------------------------------- grouping

\* Variant: an item goes to the front of its group.
pushItemFront(grouped, key, item) ==
  IF \E j \in 1..Len(grouped) : grouped[j].key = key
  THEN [j \in 1..Len(grouped) |->
          IF grouped[j].key = key
          THEN [grouped[j] EXCEPT !.items = <<item>> \o @]
          ELSE grouped[j]]
  ELSE Append(grouped, [key |-> key, items |-> <<item>>])

\* grouped.get(key).push(item), with grouped.set(key, []) for a new key: the
\* Map keeps its keys in the order they were first set.
pushItem(grouped, key, item) ==
  IF \E j \in 1..Len(grouped) : grouped[j].key = key
  THEN [j \in 1..Len(grouped) |->
          IF grouped[j].key = key
          THEN [grouped[j] EXCEPT !.items = Append(@, item)]
          ELSE grouped[j]]
  ELSE Append(grouped, [key |-> key, items |-> <<item>>])

\* The grouping loop of preloadAll, startAll and pauseAll from slot i on:
\* the Map it builds and pairState as its getPair calls leave it.
RECURSIVE groupSlots(_, _, _, _)
groupSlots(cfg, ps, i, grouped) ==
  IF i > Len(cfg.slots) THEN [grouped |-> grouped, ps |-> ps]
  ELSE LET slot == cfg.slots[i] IN
       IF ~Effective(slot) THEN groupSlots(cfg, ps, i + 1, grouped)
       ELSE LET item == [slotIndex |-> i, channel |-> slot.channel, clip |-> slot.clip,
                         pair |-> getPair(cfg, ps, i),
                         startFrame |-> timecodeToFrames(slot.timecode, cfg.fps)]
            IN groupSlots(cfg, getPairState(cfg, ps, i), i + 1,
                          pushItem(grouped, ConnKey(slot.host, slot.port), item))

RECURSIVE itemsPlan(_, _, _, _)
itemsPlan(kind, conn, items, j) ==
  IF j > Len(items) THEN <<>>
  ELSE itemCommands(kind, conn, items[j]) \o itemsPlan(kind, conn, items, j + 1)

\* for (const [key, items] of grouped.entries()) { defer; items...; resume }
\* from entry g on: every command the loop awaits, in order.
RECURSIVE groupedPlan(_, _, _)
groupedPlan(kind, grouped, g) ==
  IF g > Len(grouped) THEN <<>>
  ELSE LET conn == SplitConn(grouped[g].key) IN
       <<Defer(conn)>> \o itemsPlan(kind, conn, grouped[g].items, 1) \o <<Resume(conn)>>
       \o groupedPlan(kind, grouped, g + 1)

\* ------------------------------------------------------------------ state

VARIABLES
  config,        \* the in-memory configuration
  connections,   \* keys of the Map `connections`
  pairState,     \* the Map `pairState`: slot index -> pair
  t0,            \* null | the clock at the last start or reset-clock
  autosyncMode,  \* "off" | "manual" | "auto"
  autosyncTimer, \* whether the handle `autosyncTimer` is non-null
  intervals,     \* number of setInterval timers that are armed
  now,           \* the clock, Date.now()
  tasks,         \* the running async functions
  queue,         \* per connection: the tasks awaiting a reply, oldest first
  wire,          \* per connection: what the last command written found open
  alive,         \* whether the Node process is running
  remote,        \* the layers of the CasparCG servers, where they are followed
  ran,           \* how far the operations ended so far follow the sequence
                 \* preload, start, (pause, start)*, resync*
  answer         \* the status of the last answer of POST /api/mode, where kept

vars == <<config, connections, pairState, t0, autosyncMode, autosyncTimer,
          intervals, now, tasks, queue, wire, alive, remote, ran, answer>>

NoPair == [active |-> 0, standby |-> 0, baseLayer |-> 0]
NoRow == [index |-> 0, host |-> EmptyHost, channel |-> 0, baseLayer |-> 0,
          activeLayer |-> 0, standbyLayer |-> 0, clip |-> ""]

\* A task: the async function it runs (kind), where it stands (pc, stage, i,
\* plan, ip) and its locals.  plan holds the commands the code awaits one
\* after the other from where it stands, ip the one whose reply is awaited.
\* pre, armed, armedOn, swapped, triggered, was and found only record what
\* the task has done and found (armedOn: the channel and pair each slot was
\* armed with; was: t0 as startAll found it; found: the layers and the pairs
\* as the operation found them, where the servers are followed).
IdleTask ==
  [kind |-> "idle", pc |-> "idle", stage |-> "", plan |-> <<>>, ip |-> 0, i |-> 0,
   mode |-> "", tf |-> 0, pair |-> NoPair, cur |-> NoRow, rows |-> <<>>, rows2 |-> <<>>,
   triggered |-> FALSE, pre |-> <<>>, armed |-> {}, swapped |-> {}, was |-> Null,
   armedOn |-> {},
   found |-> Null]

\* The pairs getPair would return for the slots of cfg.
pairView(cfg, ps) == [j \in 1..Len(cfg.slots) |-> getPair(cfg, ps, j)]

NewTask(kind) ==
  [IdleTask EXCEPT !.kind = kind, !.pc = "wait",
                   !.found = IF remote.tracked
                             THEN Some([layers |-> remote.layers,
                                        pairs |-> pairView(config, pairState)])
                             ELSE Null]

\* What a piece of code leaves behind: the task, pairState, and the command
\* it handed to a connection (none when the function has returned).
Res(tk, ps, out) == [task |-> tk, ps |-> ps, out |-> out]

\* The next slot index >= from that the loops do not skip, 0 when none.
nextEffective(cfg, from) ==
  LET S == {j \in from..Len(cfg.slots) : Effective(cfg.slots[j])} IN
  IF S = {} THEN 0 ELSE CHOOSE j \in S : \A k \in S : j <= k

\* --------------------------------------------- preloadAll, startAll, pauseAll

\* startAll, lines 362-365: pairState.set(i, canonical pair) for every slot.
resetPairs(cfg, ps) ==
  [j \in DOMAIN ps \cup (1..Len(cfg.slots)) |->
     IF j \in 1..Len(cfg.slots) THEN CanonPair(cfg.slots[j].baseLayer) ELSE ps[j]]

\* The synchronous head of preloadAll / startAll / pauseAll up to the first
\* await: group, then DEFER on the first connection.
batchEnter(tk, cfg, ps) ==
  LET g == groupSlots(cfg, ps, 1, <<>>)
      plan == groupedPlan(tk.kind, g.grouped, 1)
  IN IF plan = <<>>
     THEN Res([tk EXCEPT !.pc = "ret", !.stage = "batch"], g.ps, <<>>)
     ELSE Res([tk EXCEPT !.stage = "batch", !.plan = plan, !.ip = 1], g.ps, <<plan[1]>>)

\* The command just awaited was acknowledged: go on to the next one.
batchCont(tk, ps) ==
  IF tk.ip < Len(tk.plan)
  THEN Res([tk EXCEPT !.ip = @ + 1], ps, <<tk.plan[tk.ip + 1]>>)
  ELSE Res([tk EXCEPT !.pc = "ret"], ps, <<>>)

\* ---------------------------------------------------------------- resyncAll

\* The second loop of resyncAll from slot index `from` on.
swapScan(tk, cfg, ps, from) ==
  LET j == nextEffective(cfg, from) IN
  IF j = 0 THEN Res([tk EXCEPT !.pc = "ret"], ps, <<>>)
  ELSE LET slot == cfg.slots[j]
           conn == ConnKey(slot.host, slot.port)
           pair == getPair(cfg, ps, j)
           plan == transitionPlan(tk.mode, conn, slot.channel, pair, cfg.fadeFrames)
       IN Res([tk EXCEPT !.stage = "swap", !.i = j, !.pair = pair, !.plan = plan, !.ip = 1],
              getPairState(cfg, ps, j), <<plan[1]>>)

\* Variant: the arm loads the active layer.
armScanActive(tk, cfg, ps, from) ==
  LET j == nextEffective(cfg, from) IN
  IF j = 0 THEN swapScan(tk, cfg, ps, 1)
  ELSE LET slot == cfg.slots[j]
           conn == ConnKey(slot.host, slot.port)
           pair == getPair(cfg, ps, j)
           plan == loadAndPause(conn, slot.channel, pair.active, slot.clip, tk.tf)
       IN Res([tk EXCEPT !.stage = "arm", !.i = j, !.pair = pair, !.plan = plan, !.ip = 1],
              getPairState(cfg, ps, j), <<plan[1]>>)

\* The first loop of resyncAll from slot index `from` on.
armScan(tk, cfg, ps, from) ==
  LET j == nextEffective(cfg, from) IN
  IF j = 0 THEN swapScan(tk, cfg, ps, 1)
  ELSE LET slot == cfg.slots[j]
           conn == ConnKey(slot.host, slot.port)
           pair == getPair(cfg, ps, j)
           plan == loadAndPause(conn, slot.channel, pair.standby, slot.clip, tk.tf)
       IN Res([tk EXCEPT !.stage = "arm", !.i = j, !.pair = pair, !.plan = plan, !.ip = 1],
              getPairState(cfg, ps, j), <<plan[1]>>)

\* resyncAll(mode, tf) up to its first await.
resyncEnter(tk, cfg, ps, mode, tf) ==
  armScan([tk EXCEPT !.mode = mode, !.tf = tf, !.pre = pairView(cfg, ps),
                     !.armed = {}, !.armedOn = {}, !.swapped = {}], cfg, ps, 1)

\* Variant: the pair is stored as it was, not exchanged.
storeUnswapped(ps, i, pair) == SetPair(ps, i, pair)

\* resyncAll, line 470: pairState.set(i, newPair) once the transition returned.
storeSwapped(ps, i, pair) == SetPair(ps, i, SwapPair(pair))

\* A command of resyncAll was acknowledged.
resyncCont(tk, cfg, ps) ==
  IF tk.ip < Len(tk.plan)
  THEN Res([tk EXCEPT !.ip = @ + 1], ps, <<tk.plan[tk.ip + 1]>>)
  ELSE IF tk.stage = "arm"
       THEN armScan([tk EXCEPT !.armed = @ \cup {tk.i},
                               !.armedOn = @ \cup {[slot |-> tk.i, ch |-> tk.plan[2].ch,
                                                    pair |-> tk.pair]}],
                    cfg, ps, tk.i + 1)
       ELSE swapScan([tk EXCEPT !.swapped = @ \cup {tk.i}], cfg,
                     storeSwapped(ps, tk.i, tk.pair), tk.i + 1)

\* Variant: a rejection stores the exchanged pair all the same.
resyncRejectedStoring(tk, ps) == SetPair(ps, tk.i, SwapPair(tk.pair))

\* A command of resyncAll was rejected: the await throws, resyncAll ends
\* there, and pairState stays as it is.
resyncRejected(tk, ps) == ps

\* ------------------------------------------------------------ snapshotStatus

\* The text of a reply is written as the sequence of its characters.
DigitChars == <<"0", "1", "2", "3", "4", "5", "6", "7", "8", "9">>

IsDigit(c) == \E d \in 1..Len(DigitChars) : DigitChars[d] = c

DigitValue(c) == (CHOOSE d \in 1..Len(DigitChars) : DigitChars[d] = c) - 1

\* String(n) for a frame number n >= 0.
RECURSIVE textOf(_)
textOf(n) ==
  IF n < Len(DigitChars) THEN <<DigitChars[n + 1]>>
  ELSE Append(textOf(n \div Len(DigitChars)), DigitChars[(n % Len(DigitChars)) + 1])

\* parseInt reads digits from position n on and stops at the first
\* character that is none: the value read, acc so far.
RECURSIVE digitsFrom(_, _, _)
digitsFrom(text, n, acc) ==
  IF n > Len(text) \/ ~IsDigit(text[n]) THEN acc
  ELSE digitsFrom(text, n + 1, acc * Len(DigitChars) + DigitValue(text[n]))

\* parseInt(line, 10): an optional sign, then the digits up to the first
\* character that is no digit; NaN (Null) when no digit comes first.
parseInt10(text) ==
  LET signed == text # <<>> /\ text[1] \in {"-", "+"}
      from == IF signed THEN 2 ELSE 1
  IN IF from > Len(text) \/ ~IsDigit(text[from]) THEN Null
     ELSE IF signed /\ text[1] = "-" THEN Some(0 - digitsFrom(text, from, 0))
     ELSE Some(digitsFrom(text, from, 0))

\* What the remote may answer to CALL ch-layer FRAME: an error, a reply that
\* is no number, or a frame number.
FrameReplies(maxFrame) ==
  {[ok |-> FALSE, text |-> <<>>], [ok |-> TRUE, text |-> <<"x">>]}
  \cup {[ok |-> TRUE, text |-> textOf(f)] : f \in 0..maxFrame}

\* Replies that begin with a number and go on: a fraction, a unit.
TrailingReplies ==
  {[ok |-> TRUE, text |-> <<"1", ".", "5">>], [ok |-> TRUE, text |-> <<"2", "f">>]}

\* getCurrentFrame: null when conn.do throws or parseInt gives no finite number.
getCurrentFrame(reply) == IF reply.ok THEN parseInt10(reply.text) ELSE Null

\* const drift = current != null ? current - tf : null;
driftOf(current, tf) == IF IsNull(current) THEN Null ELSE Some(Val(current) - tf)

\* The loop of snapshotStatus from slot index `from` on.
statusScan(tk, cfg, ps, from) ==
  LET j == nextEffective(cfg, from) IN
  IF j = 0 THEN Res([tk EXCEPT !.pc = "ret"], ps, <<>>)
  ELSE LET slot == cfg.slots[j]
           pair == getPair(cfg, ps, j)
           conn == ConnKey(slot.host, slot.port)
           cmd == CallFrame(conn, slot.channel, pair.active)
           cur == [index |-> j, host |-> slot.host, channel |-> slot.channel,
                   baseLayer |-> slot.baseLayer, activeLayer |-> pair.active,
                   standbyLayer |-> pair.standby, clip |-> slot.clip]
       IN Res([tk EXCEPT !.i = j, !.cur = cur, !.plan = <<cmd>>, !.ip = 1],
              getPairState(cfg, ps, j), <<cmd>>)

\* snapshotStatus() up to its first await; stage is "sample", or "sample2"
\* for the snapshot an autosync tick broadcasts at its end.
statusEnter(tk, cfg, ps, stage, tf) ==
  statusScan([tk EXCEPT !.stage = stage, !.tf = tf], cfg, ps, 1)

\* rows.push({...}) with the frame just read.
rowOf(cur, current, tf) ==
  [index |-> cur.index, host |-> cur.host, channel |-> cur.channel,
   baseLayer |-> cur.baseLayer, activeLayer |-> cur.activeLayer,
   standbyLayer |-> cur.standbyLayer, clip |-> cur.clip,
   currentFrame |-> current, targetFrame |-> tf, drift |-> driftOf(current, tf)]

\* The reply to CALL ... FRAME came in.
statusCont(tk, cfg, ps, reply) ==
  LET row == rowOf(tk.cur, getCurrentFrame(reply), tk.tf)
      tk2 == IF tk.stage = "sample2" THEN [tk EXCEPT !.rows2 = Append(@, row)]
             ELSE [tk EXCEPT !.rows = Append(@, row)]
  IN statusScan(tk2, cfg, ps, tk.i + 1)

\* ------------------------------------------------------- the autosync tick

\* Variant: the signed value instead of the magnitude.
Signed(x) == x

\* Math.abs
Abs(x) == IF x < 0 THEN -x ELSE x

\* Variant: the comparison with the tolerance is not strict.
needResyncAtLeast(rows, tolerance) ==
  \E k \in 1..Len(rows) :
     /\ ~IsNull(rows[k].drift)
     /\ Abs(Val(rows[k].drift)) >= tolerance

\* The loop over status.rows of the interval callback: the value of `need`.
needResync(rows, tolerance) ==
  \E k \in 1..Len(rows) :
     /\ ~IsNull(rows[k].drift)
     /\ Abs(Val(rows[k].drift)) > tolerance

\* broadcast({ type: 'status', payload: await snapshotStatus() }) and the end
\* of the callback.
tickBroadcast(tk, cfg, ps, tf) ==
  LET r == statusEnter(tk, cfg, ps, "sample2", tf) IN
  IF r.task.pc = "ret" THEN Res([r.task EXCEPT !.pc = "done"], r.ps, <<>>) ELSE r

\* Variant: the resync is given the target frame of the moment it is called.
tickDecideAfresh(tk, cfg, ps, tf) ==
  IF needResync(tk.rows, cfg.driftToleranceFrames)
  THEN LET r == resyncEnter([tk EXCEPT !.triggered = TRUE], cfg, ps, cfg.resyncMode, tf)
       IN IF r.task.pc = "ret" THEN tickBroadcast([r.task EXCEPT !.pc = "wait"], cfg, r.ps, tf)
          ELSE r
  ELSE tickBroadcast(tk, cfg, ps, tf)

\* The callback after `await snapshotStatus()`: need, the resync, the broadcast.
\* tf is targetFrame() now, for the snapshot that is broadcast.
tickDecide(tk, cfg, ps, tf) ==
  IF needResync(tk.rows, cfg.driftToleranceFrames)
  THEN LET r == resyncEnter([tk EXCEPT !.triggered = TRUE], cfg, ps,
                            cfg.resyncMode, tk.rows[1].targetFrame)
       IN IF r.task.pc = "ret" THEN tickBroadcast([r.task EXCEPT !.pc = "wait"], cfg, r.ps, tf)
          ELSE r
  ELSE tickBroadcast(tk, cfg, ps, tf)

\* The callback from its start (the mode is 'auto') to its first await.
tickEnter(tk, cfg, ps, tf) ==
  LET r == statusEnter(tk, cfg, ps, "sample", tf) IN
  IF r.task.pc = "ret" THEN tickDecide([r.task EXCEPT !.pc = "wait"], cfg, r.ps, tf) ELSE r

\* A function the task awaited has returned (pc = "ret"): what its caller does.
afterReturn(r, cfg, tf) ==
  IF r.task.pc # "ret" THEN r
  ELSE IF r.task.kind # "tick" THEN Res([r.task EXCEPT !.pc = "done"], r.ps, <<>>)
  ELSE IF r.task.stage = "sample" THEN tickDecide([r.task EXCEPT !.pc = "wait"], cfg, r.ps, tf)
  ELSE IF r.task.stage = "sample2" THEN Res([r.task EXCEPT !.pc = "done"], r.ps, <<>>)
  ELSE tickBroadcast([r.task EXCEPT !.pc = "wait"], cfg, r.ps, tf)

\* -------------------------------------------------------- POST /api/config

AllowedGlobals ==
  {"fps", "frames", "autosyncIntervalSec", "driftToleranceFrames", "resyncMode", "fadeFrames"}

\* { ...def, ...s }: the fields of the patch s over those of def.
mergeSlot(def, s) ==
  [f \in DOMAIN def \cup DOMAIN s |-> IF f \in DOMAIN s THEN s[f] ELSE def[f]]

\* config.slots[idx] || {}
EmptyObject == [f \in {} |-> 0]
slotOrEmpty(cfg, j) == IF j <= Len(cfg.slots) THEN cfg.slots[j] ELSE EmptyObject

\* The whitelisted globals of the body, and body.slots.slice(0, 20) merged
\* index by index over the slots there were.
applyBody(cfg, body) ==
  [k \in DOMAIN cfg |->
     IF k \in AllowedGlobals /\ k \in DOMAIN body THEN body[k]
     ELSE IF k = "slots" /\ "slots" \in DOMAIN body
          THEN [j \in 1..(IF Len(body.slots) < 20 THEN Len(body.slots) ELSE 20) |->
                  mergeSlot(slotOrEmpty(cfg, j), body.slots[j])]
          ELSE cfg[k]]

\* Lines 597-603: a canonical pair for every slot whose entry is missing or
\* was made for another baseLayer.
refreshPairs(cfg, ps) ==
  [j \in DOMAIN ps \cup (1..Len(cfg.slots)) |->
     IF j \in 1..Len(cfg.slots) /\ PairStale(cfg, ps, j)
     THEN CanonPair(cfg.slots[j].baseLayer) ELSE ps[j]]

\* ------------------------------------------------------- the autosync timer

\* Variant: the loop is started without stopping the one that runs.
intervalsAfterStartOnly(timer, n) == n + 1

\* startAutosyncLoop: stopAutosyncLoop(), then a new setInterval.
\* The number of armed timers after it.
intervalsAfterStart(timer, n) == (IF timer THEN n - 1 ELSE n) + 1
\* stopAutosyncLoop: clearInterval(autosyncTimer) when the handle is set.
intervalsAfterStop(timer, n) == IF timer THEN n - 1 ELSE n

\* A value of a JSON body: a string or a number by its text, or no value.
JsonString(s) == [type |-> "string", text |-> s]
JsonNumber(s) == [type |-> "number", text |-> s]
NoValue == [type |-> "undefined", text |-> ""]

\* Whether v counts as true in v || ''.
truthy(v) ==
  CASE v.type = "string" -> v.text # ""
    [] v.type = "number" -> v.text # "0"
    [] OTHER -> FALSE

\* (req.body?.mode || '').toLowerCase()
toLowerCase(s) ==
  CASE s = "AUTO" -> "auto" [] s = "Off" -> "off" [] s = "Manual" -> "manual" [] OTHER -> s

\* ---------------------------------------------------------------- the wire

\* Per connection: owner is the task whose DEFER opened the batch that is
\* open on the wire (0: none); mixed tells that the last command written
\* went into a batch another task had opened.
NoWire == [owner |-> 0, mixed |-> FALSE]

written(w, t, c) ==
  [owner |-> IF c.verb = "DEFER" THEN (IF w.owner = 0 THEN t ELSE w.owner)
             ELSE IF c.verb = "RESUME" THEN 0 ELSE w.owner,
   mixed |-> w.owner \notin {0, t}]

\* ------------------------------------------------------------- the remote

\* A layer nothing has been sent to.
ColdLayer == [clip |-> "", frame |-> 0, playing |-> FALSE, opacity |-> 1, volume |-> 1]

\* The servers before anything is sent; pending is, per connection, the
\* commands received since a DEFER (Null: no DEFER is open).
ColdRemote ==
  [tracked |-> TRUE, layers |-> EmptyObject, pending |-> [k \in AllKeys |-> Null]]

\* The servers not followed.
NoRemote == [ColdRemote EXCEPT !.tracked = FALSE]

LayerKey(c) == <<c.conn, c.ch, c.layer>>

LayerAt(layers, key) == IF key \in DOMAIN layers THEN layers[key] ELSE ColdLayer

\* What one command does to its layer.  A MIXER command with a duration is
\* recorded by the value it ramps to.
layerAfter(l, c) ==
  CASE c.verb = "LOADBG" -> [l EXCEPT !.clip = c.clip, !.frame = c.val]
    [] c.verb = "PAUSE" -> [l EXCEPT !.playing = FALSE]
    [] c.verb = "PLAY" -> [l EXCEPT !.playing = TRUE]
    [] c.verb = "OPACITY" -> [l EXCEPT !.opacity = c.val]
    [] c.verb = "VOLUME" -> [l EXCEPT !.volume = c.val]
    [] OTHER -> l

\* The layers after command c.
layersAfter(layers, c) ==
  IF c.verb \in {"DEFER", "RESUME", "CALL"} THEN layers
  ELSE [key \in DOMAIN layers \cup {LayerKey(c)} |->
          IF key = LayerKey(c) THEN layerAfter(LayerAt(layers, key), c) ELSE layers[key]]

\* The layers after the commands cs[j..] in their order.
RECURSIVE layersAfterAll(_, _, _)
layersAfterAll(layers, cs, j) ==
  IF j > Len(cs) THEN layers ELSE layersAfterAll(layersAfter(layers, cs[j]), cs, j + 1)

\* The server has acknowledged command c: DEFER opens a batch, a command
\* inside a batch is held back, RESUME applies the batch at once; outside a
\* batch a command applies as it comes.
ackedOn(rem, c) ==
  IF ~rem.tracked THEN rem
  ELSE LET open == rem.pending[c.conn] IN
       IF c.verb = "DEFER"
       THEN [rem EXCEPT !.pending[c.conn] = IF IsNull(open) THEN Some(<<>>) ELSE open]
       ELSE IF c.verb = "RESUME"
       THEN [rem EXCEPT !.pending[c.conn] = Null,
                        !.layers = IF IsNull(open) THEN @
                                   ELSE layersAfterAll(@, Val(open), 1)]
       ELSE IF IsNull(open) THEN [rem EXCEPT !.layers = layersAfter(@, c)]
       ELSE [rem EXCEPT !.pending[c.conn] = Some(Append(Val(open), c))]

\* The server has rejected command c: the command does nothing, and a batch
\* it came in stays open until a RESUME.
rejectedOn(rem, c) == rem

\* The sequence preload, start, (pause, start)*, resync* followed through
\* the operations that have ended: where it stands after one more.
ranAfter(r, kind, ok) ==
  IF r = "untracked" THEN r
  ELSE IF kind \in {"status", "tick", "config"} THEN r
  ELSE IF ~ok THEN "other"
  ELSE CASE r = "none" /\ kind = "preload" -> "preloaded"
         [] r \in {"preloaded", "paused"} /\ kind = "start" -> "started"
         [] r = "started" /\ kind = "pause" -> "paused"
         [] r \in {"started", "resynced"} /\ kind = "resync" -> "resynced"
         [] OTHER -> "other"

\* Task t is resumed: its reply (on connection pop, if any) is taken off the
\* queue, it becomes r.task, and the command r.out goes onto the wire.
\* A handler that ends answers its request at once and is gone; with keep,
\* its last locals stay readable until Respond.
Deliver(t, pop, r, keep) ==
  /\ tasks' = [tasks EXCEPT ![t] =
                 IF r.task.pc \in {"done", "failed"} /\ ~keep THEN IdleTask ELSE r.task]
  /\ pairState' = r.ps
  /\ connections' = connections \cup {r.out[j].conn : j \in 1..Len(r.out)}
  /\ queue' = [k \in AllKeys |->
                 LET q1 == IF pop = <<k>> THEN Tail(queue[k]) ELSE queue[k] IN
                 IF r.out # <<>> /\ r.out[1].conn = k THEN Append(q1, t) ELSE q1]
  /\ wire' = [k \in AllKeys |->
                IF r.out # <<>> /\ r.out[1].conn = k THEN written(wire[k], t, r.out[1])
                ELSE wire[k]]
  /\ remote' = IF IsNull(pop) THEN remote
               ELSE IF r.task.pc = "failed" THEN rejectedOn(remote, tasks[t].plan[tasks[t].ip])
               ELSE ackedOn(remote, tasks[t].plan[tasks[t].ip])
  /\ ran' = IF r.task.pc \in {"done", "failed"}
            THEN ranAfter(ran, r.task.kind, r.task.pc = "done")
            ELSE ran

\* The connection task t awaits a reply on.
awaitedConn(tk) == tk.plan[tk.ip].conn

\* conn.do resolves in the order the commands were queued on the connection.
Awaiting(t) ==
  /\ alive
  /\ tasks[t].pc = "wait"
  /\ queue[awaitedConn(tasks[t])] # <<>>
  /\ Head(queue[awaitedConn(tasks[t])]) = t

AllIdle == \A u \in TaskIds : tasks[u].pc = "idle"

\* Task slot t is taken by a handler that starts; alone: only when no other
\* async function is in flight.
Free(t, alone) ==
  /\ alive
  /\ tasks[t].pc = "idle"
  /\ \A u \in TaskIds : u < t => tasks[u].pc # "idle"
  /\ alone => AllIdle

Tf == targetFrameAt(t0, now, config)

\* ---------------------------------------------------------------- actions

Shared == <<config, t0, autosyncMode, autosyncTimer, intervals, now, alive, answer>>

\* POST /api/preload
PreloadAll(t, alone) ==
  /\ Free(t, alone)
  /\ Deliver(t, Null, afterReturn(batchEnter(NewTask("preload"), config, pairState), config, Tf), alone)
  /\ UNCHANGED Shared

\* Variant: the start leaves t0 as it is.
StartAllKeepingClock(t, alone) ==
  /\ Free(t, alone)
  /\ Deliver(t, Null, afterReturn(batchEnter([NewTask("start") EXCEPT !.was = t0], config,
                                  resetPairs(config, pairState)), config, Tf), alone)
  /\ UNCHANGED Shared

\* POST /api/start
StartAll(t, alone) ==
  /\ Free(t, alone)
  /\ t0' = Some(now)
  /\ Deliver(t, Null, afterReturn(batchEnter([NewTask("start") EXCEPT !.was = t0], config,
                                  resetPairs(config, pairState)), config, Tf), alone)
  /\ UNCHANGED <<config, autosyncMode, autosyncTimer, intervals, now, alive, answer>>

\* POST /api/pause
PauseAll(t, alone) ==
  /\ Free(t, alone)
  /\ Deliver(t, Null, afterReturn(batchEnter(NewTask("pause"), config, pairState), config, Tf), alone)
  /\ UNCHANGED Shared

\* POST /api/resync with body {mode?, frame?} (each null or a value)
ResyncAll(t, alone, bodyMode, bodyFrame) ==
  /\ Free(t, alone)
  /\ LET mode == IF IsNull(bodyMode) THEN config.resyncMode ELSE Val(bodyMode)
         tf == IF IsNull(bodyFrame) THEN Tf ELSE Val(bodyFrame)
     IN Deliver(t, Null, afterReturn(resyncEnter(NewTask("resync"), config, pairState, mode, tf),
                                     config, Tf), alone)
  /\ UNCHANGED Shared

\* GET /api/status
GetStatus(t, alone) ==
  /\ Free(t, alone)
  /\ Deliver(t, Null, afterReturn(statusEnter(NewTask("status"), config, pairState, "sample", Tf),
                                  config, Tf), alone)
  /\ UNCHANGED Shared

\* An armed interval timer fires its callback.
Tick(t, alone) ==
  /\ intervals > 0
  /\ Free(t, alone)
  /\ IF autosyncMode # "auto"
     THEN UNCHANGED <<tasks, pairState, connections, queue, wire, remote, ran>>
     ELSE Deliver(t, Null, afterReturn(tickEnter(NewTask("tick"), config, pairState, Tf), config, Tf), alone)
  /\ UNCHANGED Shared

\* The remote acknowledges the command task t awaits (not a CALL).
CommandOk(t, keep) ==
  /\ Awaiting(t)
  /\ tasks[t].stage \in {"batch", "arm", "swap"}
  /\ LET tk == tasks[t]
         r == IF tk.stage = "batch" THEN batchCont(tk, pairState)
              ELSE resyncCont(tk, config, pairState)
     IN Deliver(t, Some(awaitedConn(tk)), afterReturn(r, config, Tf), keep)
  /\ UNCHANGED Shared

\* Who catches what an async function throws: the try/catch of the HTTP
\* handlers of preload, start, pause and resync; nothing around the interval
\* callback, whose promise is then rejected with no handler.
unhandled(tk) == tk.kind = "tick"

\* What Node does with an unhandled rejection: end the process (the default
\* of the recommended versions), or warn and go on (older versions, or
\* --unhandled-rejections=warn).
ExitOnUnhandled == BOOLEAN

\* The remote rejects the command task t awaits, or the connection fails:
\* conn.do throws and nothing catches it before the handler.
CommandRejected(t, keep) ==
  /\ Awaiting(t)
  /\ tasks[t].stage \in {"batch", "arm", "swap"}
  /\ LET tk == tasks[t]
         ps == IF tk.stage = "batch" THEN pairState ELSE resyncRejected(tk, pairState)
     IN Deliver(t, Some(awaitedConn(tk)), Res([tk EXCEPT !.pc = "failed"], ps, <<>>), keep)
  /\ \E exits \in ExitOnUnhandled : alive' = ~(unhandled(tasks[t]) /\ exits)
  /\ UNCHANGED <<config, t0, autosyncMode, autosyncTimer, intervals, now, answer>>

\* The reply to the CALL ... FRAME task t awaits comes in (getCurrentFrame
\* catches an error).
FrameReply(t, keep, reply) ==
  /\ Awaiting(t)
  /\ tasks[t].stage \in {"sample", "sample2"}
  /\ Deliver(t, Some(awaitedConn(tasks[t])),
             afterReturn(statusCont(tasks[t], config, pairState, reply), config, Tf), keep)
  /\ UNCHANGED Shared

\* The locals a finished handler left behind are dropped.
Respond(t) ==
  /\ alive
  /\ tasks[t].pc \in {"done", "failed"}
  /\ tasks' = [tasks EXCEPT ![t] = IdleTask]
  /\ UNCHANGED <<config, connections, pairState, t0, autosyncMode, autosyncTimer,
                 intervals, now, queue, wire, alive, remote, ran, answer>>

\* POST /api/config up to `await saveConfig(config)`.
ConfigPost(t, alone, body) ==
  /\ Free(t, alone)
  /\ config' = applyBody(config, body)
  /\ pairState' = refreshPairs(config', pairState)
  /\ tasks' = [tasks EXCEPT ![t] = [NewTask("config") EXCEPT !.pc = "save", !.stage = "save"]]
  /\ UNCHANGED <<connections, t0, autosyncMode, autosyncTimer, intervals, now, queue, wire, alive,
                 remote, ran, answer>>

\* POST /api/config after saveConfig: restart the loop when the mode is auto.
ConfigSaved(t) ==
  /\ alive
  /\ tasks[t].pc = "save"
  /\ tasks' = [tasks EXCEPT ![t] = IdleTask]
  /\ IF autosyncMode = "auto"
     THEN /\ intervals' = intervalsAfterStart(autosyncTimer, intervals)
          /\ autosyncTimer' = TRUE
     ELSE UNCHANGED <<intervals, autosyncTimer>>
  /\ UNCHANGED <<config, connections, pairState, t0, autosyncMode, now, queue, wire, alive,
                 remote, ran, answer>>

\* (req.body?.mode || '').toLowerCase() throws a TypeError when the value is
\* truthy and has no toLowerCase method.
modeThrows(v) == truthy(v) /\ v.type # "string"

\* POST /api/mode with body.mode = v; with log, the status of the answer is
\* kept.  A handler that throws is answered by the framework with 500.
SetMode(v, log) ==
  /\ alive
  /\ IF modeThrows(v)
     THEN /\ UNCHANGED <<autosyncMode, autosyncTimer, intervals>>
          /\ answer' = IF log THEN Some(500) ELSE answer
     ELSE LET mode == toLowerCase(IF truthy(v) THEN v.text ELSE "") IN
          IF mode \notin {"off", "manual", "auto"}
          THEN /\ UNCHANGED <<autosyncMode, autosyncTimer, intervals>>
               /\ answer' = IF log THEN Some(400) ELSE answer
          ELSE /\ autosyncMode' = mode
               /\ IF mode = "auto"
                  THEN /\ intervals' = intervalsAfterStart(autosyncTimer, intervals)
                       /\ autosyncTimer' = TRUE
                  ELSE /\ intervals' = intervalsAfterStop(autosyncTimer, intervals)
                       /\ autosyncTimer' = FALSE
               /\ answer' = IF log THEN Some(200) ELSE answer
  /\ UNCHANGED <<config, connections, pairState, t0, now, tasks, queue, wire, alive, remote, ran>>

\* POST /api/reset-clock
ResetClock ==
  /\ alive
  /\ t0' = Some(now)
  /\ UNCHANGED <<config, connections, pairState, autosyncMode, autosyncTimer,
                 intervals, now, tasks, queue, wire, alive, remote, ran, answer>>

\* Time passes: the clock moves on to a later one of the instants.
Advance(instants) ==
  /\ alive
  /\ \E n \in instants : n > now /\ now' = n
  /\ UNCHANGED <<config, connections, pairState, t0, autosyncMode, autosyncTimer,
                 intervals, tasks, queue, wire, alive, remote, ran, answer>>

\* ------------------------------------------------------------ specifications

\* The instants the clock is read at.
Instants == {1 + MsPerSec * k : k \in 0..(MaxNow - 1)}

\* A configuration as loadConfig returns it.
BaseConfig(slots, tolerance) ==
  [fps |-> Rat(1, 1), frames |-> 3, autosyncIntervalSec |-> 10, driftToleranceFrames |-> tolerance,
   resyncMode |-> "cut", fadeFrames |-> 2, slots |-> slots]

\* The program once the module is loaded, with the configuration cfg on disk.
InitProgram(cfgs) ==
  /\ config \in cfgs
  /\ connections = {}
  /\ pairState = EmptyObject
  /\ t0 = Null
  /\ autosyncMode = "off"
  /\ autosyncTimer = FALSE
  /\ intervals = 0
  /\ now = 1
  /\ tasks = [t \in TaskIds |-> IdleTask]
  /\ queue = [k \in AllKeys |-> <<>>]
  /\ wire = [k \in AllKeys |-> NoWire]
  /\ alive = TRUE
  /\ answer = Null

\* The state once the module is loaded, the servers not followed.
InitWith(cfgs) ==
  /\ InitProgram(cfgs)
  /\ remote = NoRemote
  /\ ran = "untracked"

\* The same with the servers followed from their cold state.
InitFollowing(cfgs) ==
  /\ InitProgram(cfgs)
  /\ remote = ColdRemote
  /\ ran = "none"

\* A body for POST /api/config that sets one field of slot idx and leaves
\* the other slots as they are.
SlotBody(cfg, idx, patch) ==
  [slots |-> [j \in 1..Len(cfg.slots) |-> IF j = idx THEN patch ELSE EmptyObject]]

\* Concurrent handlers on one connection.
ConcConfigs == {BaseConfig([j \in 1..ConcSlots |-> Slot(TRUE, HostA, j, 10, "a.mov")], 0)}

ConcBodies == {SlotBody(config, 1, [baseLayer |-> b]) : b \in {10, 11}}

Init == InitWith(ConcConfigs)

\* HTTP handlers running concurrently, with configuration updates.
Next ==
  \E t \in TaskIds :
    \/ PreloadAll(t, FALSE)
    \/ StartAll(t, FALSE)
    \/ PauseAll(t, FALSE)
    \/ ResyncAll(t, FALSE, Null, Null)
    \/ GetStatus(t, FALSE)
    \/ CommandOk(t, FALSE)
    \/ CommandRejected(t, FALSE)
    \/ \E reply \in FrameReplies(ConcFrame) : FrameReply(t, FALSE, reply)
    \/ \E body \in ConcBodies : ConfigPost(t, FALSE, body)
    \/ ConfigSaved(t)

Spec == Init /\ [][Next]_vars

\* The autosync loop running concurrently with mode changes, manual resyncs
\* and configuration updates.
NextAuto ==
  \E t \in TaskIds :
    \/ Tick(t, FALSE)
    \/ ResyncAll(t, FALSE, Null, Null)
    \/ CommandOk(t, FALSE)
    \/ CommandRejected(t, FALSE)
    \/ \E reply \in FrameReplies(ConcFrame) : FrameReply(t, FALSE, reply)
    \/ \E body \in ConcBodies : ConfigPost(t, FALSE, body)
    \/ ConfigSaved(t)
    \/ \E m \in {"off", "AUTO", "bogus"} : SetMode(JsonString(m), FALSE)

SpecAuto == Init /\ [][NextAuto]_vars

\* One handler at a time, over MaxSlots slots: all on one connection, or
\* alternating between two connections, or with every second slot disabled,
\* without a clip or without a host, or with no slot effective (one
\* disabled, one without a host, one without a clip).  Every third slot
\* starts one frame in.
SeqSlot(kind, j) ==
  [CASE kind = "one" -> Slot(TRUE, HostA, j, 10, "a.mov")
    [] kind = "two" -> Slot(TRUE, IF j % 2 = 1 THEN HostA ELSE HostB, j, 10, "a.mov")
    [] kind = "off" -> Slot(j % 2 = 1, HostA, j, 10, "a.mov")
    [] kind = "noclip" -> Slot(TRUE, HostA, j, 10, IF j % 2 = 1 THEN "a.mov" ELSE "")
    [] kind = "none" -> Slot(j % 3 # 1, IF j % 3 = 2 THEN EmptyHost ELSE HostA, j, 10,
                             IF j % 3 = 0 THEN "" ELSE "a.mov")
    [] OTHER -> Slot(TRUE, IF j % 2 = 1 THEN HostA ELSE EmptyHost, j, 10, "a.mov")
   EXCEPT !.timecode = IF j % 3 = 0 THEN <<"00", "00", "00", "01">> ELSE @]

SeqConfigs ==
  {BaseConfig([j \in 1..MaxSlots |-> SeqSlot(kind, j)], 1) :
     kind \in {"one", "two", "off", "noclip", "nohost"}}

InitSeq == InitWith(SeqConfigs)

NextSeq ==
  \E t \in TaskIds :
    \/ PreloadAll(t, TRUE)
    \/ StartAll(t, TRUE)
    \/ PauseAll(t, TRUE)
    \/ \E m \in {Null, Some("fade")} : ResyncAll(t, TRUE, m, Null)
    \/ GetStatus(t, TRUE)
    \/ CommandOk(t, TRUE)
    \/ CommandRejected(t, TRUE)
    \/ \E reply \in FrameReplies(ConcFrame) : FrameReply(t, TRUE, reply)
    \/ Respond(t)

SpecSeq == InitSeq /\ [][NextSeq]_vars

\* One handler at a time with the servers followed: every command the
\* handlers send is acknowledged and acts on the layers.
ShowSlots == 2
ShowConfigs ==
  {BaseConfig([j \in 1..ShowSlots |-> SeqSlot(kind, j)], 1) :
     kind \in {"one", "two", "off", "none"}}

InitShow == InitFollowing(ShowConfigs)

NextShow ==
  \E t \in TaskIds :
    \/ PreloadAll(t, TRUE)
    \/ StartAll(t, TRUE)
    \/ PauseAll(t, TRUE)
    \/ \E m \in {Null, Some("fade")} : ResyncAll(t, TRUE, m, Null)
    \/ CommandOk(t, TRUE)
    \/ Respond(t)

SpecShow == InitShow /\ [][NextShow]_vars

\* One handler at a time over one effective slot with the servers followed,
\* every command acknowledged or rejected.
FailConfigs == {BaseConfig([j \in 1..ShowSlots |-> SeqSlot("off", j)], 1)}

InitFail == InitFollowing(FailConfigs)

\* A command is rejected only while the batches the servers hold open are
\* short: a batch left open by a rejection grows with every later command
\* up to the next RESUME.
MaxPending == 2
PendingShort ==
  \A k \in AllKeys :
    IF IsNull(remote.pending[k]) THEN TRUE ELSE Len(Val(remote.pending[k])) <= MaxPending

NextFail ==
  \E t \in TaskIds :
    \/ PreloadAll(t, TRUE)
    \/ StartAll(t, TRUE)
    \/ PauseAll(t, TRUE)
    \/ ResyncAll(t, TRUE, Null, Null)
    \/ CommandOk(t, TRUE)
    \/ PendingShort /\ CommandRejected(t, TRUE)
    \/ Respond(t)

SpecFail == InitFail /\ [][NextFail]_vars

\* Manual resyncs that overlap on one effective slot, every command
\* acknowledged.
NextOverlap ==
  \E t \in TaskIds :
    \/ ResyncAll(t, FALSE, Null, Null)
    \/ CommandOk(t, TRUE)
    \/ Respond(t)

SpecOverlap == Init /\ [][NextOverlap]_vars

\* A start that overlaps a resync begun before it on one effective slot:
\* no operation begins once a start has, until the start is answered.
NoStart == \A u \in TaskIds : tasks[u].kind # "start"

NextRestart ==
  \E t \in TaskIds :
    \/ NoStart /\ ResyncAll(t, FALSE, Null, Null)
    \/ NoStart /\ StartAll(t, FALSE)
    \/ CommandOk(t, TRUE)
    \/ Respond(t)

SpecRestart == Init /\ [][NextRestart]_vars

\* One handler at a time on one effective slot whose host a configuration
\* update sets to a name or to an IPv6 literal.
HostBodies == {SlotBody(config, 1, [host |-> h]) : h \in {HostA, HostV6}}

NextHosts ==
  \E t \in TaskIds :
    \/ PreloadAll(t, TRUE)
    \/ StartAll(t, TRUE)
    \/ PauseAll(t, TRUE)
    \/ ResyncAll(t, TRUE, Null, Null)
    \/ GetStatus(t, TRUE)
    \/ CommandOk(t, TRUE)
    \/ \E reply \in FrameReplies(ConcFrame) : FrameReply(t, TRUE, reply)
    \/ Respond(t)
    \/ \E body \in HostBodies : ConfigPost(t, TRUE, body)
    \/ ConfigSaved(t)

SpecHosts == Init /\ [][NextHosts]_vars

\* One autosync tick at a time, with the clock running and the tolerance
\* and the mode being changed between ticks.
TickConfigs == {BaseConfig([j \in 1..MaxSlots |-> SeqSlot("off", j)], 1)}

InitTick == InitWith(TickConfigs)

NextTick ==
  \E t \in TaskIds :
    \/ Tick(t, TRUE)
    \/ GetStatus(t, TRUE)
    \/ StartAll(t, TRUE)
    \/ ResyncAll(t, TRUE, Null, Null)
    \/ CommandOk(t, TRUE)
    \/ CommandRejected(t, TRUE)
    \/ \E reply \in FrameReplies(MaxFrame) \cup TrailingReplies : FrameReply(t, TRUE, reply)
    \/ Respond(t)
    \/ \E v \in {0, 1} : ConfigPost(t, TRUE, [driftToleranceFrames |-> v])
    \/ ConfigSaved(t)
    \/ \E m \in {"off", "auto"} : SetMode(JsonString(m), FALSE)
    \/ Advance(Instants)

SpecTick == InitTick /\ [][NextTick]_vars

\* Mode requests with every kind of value, between autosync ticks and
\* changes of the interval, the answers of the mode handler kept.
ModeBodies ==
  {JsonString(m) : m \in {"off", "manual", "auto", "AUTO", "Off", "Manual", "bogus", ""}}
    \cup {NoValue, JsonNumber("0"), JsonNumber("5")}

InitMode == InitWith(TickConfigs)

NextMode ==
  \/ \E v \in ModeBodies : SetMode(v, TRUE)
  \/ \E t \in TaskIds :
       \/ Tick(t, TRUE)
       \/ CommandOk(t, TRUE)
       \/ \E reply \in FrameReplies(MaxFrame) : FrameReply(t, TRUE, reply)
       \/ Respond(t)
       \/ \E v \in {5, 10} : ConfigPost(t, TRUE, [autosyncIntervalSec |-> v])
       \/ ConfigSaved(t)

SpecMode == InitMode /\ [][NextMode]_vars

\* The clock: starts, resets and changes of fps and frames, with the clock
\* read half a second, one second and ten minutes after the first instant.
ClockInstants == {1, 501, 1001, 600001}

ClockConfigs ==
  {[BaseConfig(<<Slot(TRUE, HostA, 1, 10, "a.mov")>>, 1) EXCEPT !.fps = Rat(50, 1),
                                                          !.frames = 30000]}

ClockBodies ==
  {[fps |-> Rat(1, 1)], [fps |-> Rat(50, 1)], [fps |-> Rat(2997, 100)],
   [frames |-> 3], [frames |-> 30000]}

InitClock == InitWith(ClockConfigs)

NextClock ==
  \/ \E t \in TaskIds :
       \/ StartAll(t, TRUE)
       \/ CommandOk(t, TRUE)
       \/ CommandRejected(t, TRUE)
       \/ Respond(t)
       \/ \E body \in ClockBodies : ConfigPost(t, TRUE, body)
       \/ ConfigSaved(t)
  \/ AllIdle /\ ResetClock
  \/ Advance(ClockInstants)

SpecClock == InitClock /\ [][NextClock]_vars

\* Timecodes: startAll over one slot whose start timecode is any of the
\* well-formed ones below, or one with a field that is negative, partly or
\* not at all numeric or empty, or with too few or too many fields, or no
\* string at all; at 1, 50 and 29.97 frames per second.
TwoDigits == {"00", "01", "02", "03", "05", "24"}

WellFormedTimecodes ==
  {<<hh, mm, ss, ff>> : hh \in {"00", "01"}, mm \in {"00", "03"},
                        ss \in {"00", "01", "24"}, ff \in {"00", "01", "05", "24"}}

MalformedTimecodes ==
  {[k \in 1..4 |-> IF k = bad THEN v ELSE "01"] : bad \in 1..4, v \in {"-1", "1x", "xx", ""}}
  \cup {NoTimecode, <<"xx">>, <<"00", "00", "01">>, <<"00", "00", "00", "01", "00">>}

TimecodeConfigs ==
  {[BaseConfig(<<[Slot(TRUE, HostA, 1, 10, "a.mov") EXCEPT !.timecode = tc]>>, 1)
      EXCEPT !.fps = fps] :
     tc \in WellFormedTimecodes \cup MalformedTimecodes,
     fps \in {Rat(1, 1), Rat(50, 1), Rat(2997, 100)}}

InitTimecode == InitWith(TimecodeConfigs)

NextTimecode ==
  \E t \in TaskIds :
    \/ StartAll(t, TRUE)
    \/ CommandOk(t, TRUE)
    \/ CommandRejected(t, TRUE)
    \/ Respond(t)

SpecTimecode == InitTimecode /\ [][NextTimecode]_vars

\* ------------------------------------------------------------- properties

LayersOf(b) == {b, b + 10}

\* The command task record tk awaits the reply to.
awaitedCmd(tk) == tk.plan[tk.ip]

PerSlot(tk) == tk.stage \in {"arm", "swap", "sample", "sample2"}

\* C1: whenever resyncAll or status sampling hands a layer command for a
\* slot to its connection, the layer is one of {baseLayer, baseLayer+10}
\* for the base layer the slot is configured with at that moment.
C1_CommandsUseConfiguredBase ==
  [][\A t \in TaskIds :
       (tasks'[t] # tasks[t] /\ tasks'[t].pc = "wait" /\ PerSlot(tasks'[t])
          /\ awaitedCmd(tasks'[t]).layer # 0)
       => awaitedCmd(tasks'[t]).layer
            \in LayersOf(config'.slots[tasks'[t].i].baseLayer)]_vars

\* A resyncAll that has ended (returned or thrown) and has not been answered.
ResyncDone(t) == tasks[t].kind = "resync" /\ tasks[t].pc = "done"
ResyncFailed(t) == tasks[t].kind = "resync" /\ tasks[t].pc = "failed"

EffectiveSlots == {j \in 1..Len(config.slots) : Effective(config.slots[j])}

\* C2: when resyncAll has returned, the pair of every effective slot is the
\* pair it had before the call with active and standby exchanged, every
\* effective slot went through the exchange once, and the pair of every
\* other slot is the pair it had before the call.
C2_ResyncSwapsEffective ==
  \A t \in TaskIds :
    ResyncDone(t) =>
      /\ tasks[t].swapped = EffectiveSlots
      /\ \A j \in 1..Len(config.slots) :
           LET p == getPair(config, pairState, j)
               q == tasks[t].pre[j]
           IN IF j \in EffectiveSlots
              THEN p.active = q.standby /\ p.standby = q.active
              ELSE p = q

\* A resyncAll returned over effective and ineffective slots, one of the
\* effective ones having been exchanged before (its standby was the base layer).
C2_Witness ==
  \E t \in TaskIds :
    /\ ResyncDone(t)
    /\ EffectiveSlots # {} /\ EffectiveSlots # 1..Len(config.slots)
    /\ \E j \in EffectiveSlots : tasks[t].pre[j].standby = config.slots[j].baseLayer

\* The rejected command was part of the arm batch or of batch A of the swap.
FailedInArmOrBatchA(t) ==
  /\ ResyncFailed(t)
  /\ \/ tasks[t].stage = "arm"
     \/ tasks[t].stage = "swap" /\ tasks[t].ip <= BatchAEnd

\* C3: when resyncAll has failed in the arm batch or in batch A of a slot,
\* that slot's pair is the pair it had before the call.
C3_FailedSlotKeepsPair ==
  \A t \in TaskIds :
    FailedInArmOrBatchA(t) =>
      getPair(config, pairState, tasks[t].i) = tasks[t].pre[tasks[t].i]

\* Batch A of the second effective slot was rejected in a fade resync, the
\* first slot having been exchanged by this call.
C3_Witness ==
  \E t \in TaskIds :
    /\ FailedInArmOrBatchA(t)
    /\ tasks[t].stage = "swap" /\ tasks[t].ip > 1 /\ tasks[t].mode = "fade"
    /\ tasks[t].swapped # {}

\* C4: when the arm batch of one of three effective slots was rejected, that
\* slot keeps its pair and the two other slots have exchanged theirs.
C4_OtherSlotsStillSwap ==
  \A t \in TaskIds :
    (ResyncFailed(t) /\ tasks[t].stage = "arm" /\ Cardinality(EffectiveSlots) = 3) =>
      \A j \in EffectiveSlots :
         LET p == getPair(config, pairState, j)
             q == tasks[t].pre[j]
         IN IF j = tasks[t].i THEN p = q
            ELSE p.active = q.standby /\ p.standby = q.active

\* The connections the effective slots are on.
EffectiveConns == {ConnKey(config.slots[j].host, config.slots[j].port) : j \in EffectiveSlots}

\* The commands an operation hands to connection k for the slots as they are.
dueOn(kind, k) ==
  LET g == groupSlots(config, pairState, 1, <<>>).grouped
      plan == groupedPlan(kind, g, 1)
  IN {n \in 1..Len(plan) : plan[n].conn = k}

\* C5: when a command of preloadAll, startAll or pauseAll was rejected on one
\* connection, every command for every other connection has been sent; when
\* a command of resyncAll was rejected, every slot on another connection
\* has been armed and exchanged.
C5_OtherConnectionsServed ==
  \A t \in TaskIds :
    tasks[t].pc = "failed" =>
      LET tk == tasks[t]
          bad == awaitedConn(tk)
      IN IF tk.stage = "batch"
         THEN \A k \in EffectiveConns \ {bad} : \A n \in dueOn(tk.kind, k) : n < tk.ip
         ELSE \A j \in EffectiveSlots :
                ConnKey(config.slots[j].host, config.slots[j].port) # bad
                => j \in tk.armed /\ j \in tk.swapped

\* C6: on every connection, no command is written into a batch that another
\* operation has opened with DEFER and not yet closed with RESUME.
C6_OneBatchInFlight == \A k \in AllKeys : ~wire[k].mixed

\* The interval callbacks that are past the mode test and have not ended.
RunningTicks == {t \in TaskIds : tasks[t].kind = "tick" /\ tasks[t].pc = "wait"}

\* C7: at most one interval callback is sampling or resyncing at a time.
C7_OneTickAtATime == Cardinality(RunningTicks) <= 1

\* C8: an interval callback calls resyncAll only in a state where the mode
\* is auto.
C8_ResyncOnlyInAuto ==
  [][\A t \in TaskIds :
       (~tasks[t].triggered /\ tasks'[t].triggered) => autosyncMode = "auto"]_vars

\* An interval callback that is past the decision on `need`.
Decided(t) ==
  /\ tasks[t].kind = "tick"
  /\ tasks[t].pc \in {"wait", "done", "failed"}
  /\ tasks[t].stage # "sample"

\* The drifts of the rows the callback sampled for its decision.
Drifts(t) == {tasks[t].rows[k].drift : k \in 1..Len(tasks[t].rows)}

\* C9: an interval callback has called resyncAll if and only if one of the
\* rows it sampled has a drift that is not null and whose magnitude is
\* strictly greater than driftToleranceFrames.
C9_TriggerIffBeyondTolerance ==
  \A t \in TaskIds :
    Decided(t) =>
      (tasks[t].triggered <=>
         \E d \in Drifts(t) :
            d # Null /\ (d[1] > config.driftToleranceFrames
                           \/ (0 - d[1]) > config.driftToleranceFrames))

\* A callback called resyncAll on rows of which one has no drift and one a
\* drift beyond the tolerance of 1.
C9_Witness ==
  \E t \in TaskIds :
    /\ Decided(t) /\ tasks[t].triggered
    /\ config.driftToleranceFrames = 1
    /\ Null \in Drifts(t)
    /\ \E d \in Drifts(t) : d # Null /\ d[1] = 2

\* C10 as stated: with a tolerance of 0, a callback that sampled a drift
\* that is not null has called resyncAll.
C10_AnyDriftTriggers ==
  \A t \in TaskIds :
    (Decided(t) /\ config.driftToleranceFrames = 0
       /\ \E d \in Drifts(t) : d # Null)
    => tasks[t].triggered

\* C10: with a tolerance of 0, a callback has called resyncAll if and only
\* if it sampled a drift that is neither null nor zero.
C10_NonZeroDriftTriggers ==
  \A t \in TaskIds :
    (Decided(t) /\ config.driftToleranceFrames = 0)
    => (tasks[t].triggered <=> \E d \in Drifts(t) : d # Null /\ d[1] # 0)

\* With a tolerance of 0, a callback called resyncAll on a drift of -1, and
\* the other slot was in step.
C10_Witness ==
  \E t \in TaskIds :
    /\ Decided(t) /\ config.driftToleranceFrames = 0 /\ tasks[t].triggered
    /\ Drifts(t) = {Some(0 - 1), Some(0)}

\* C11: no step of an interval callback ends the process.
C11_TickFailureContained ==
  [][\A t \in TaskIds : (tasks[t].kind = "tick" /\ alive) => alive']_vars

\* A slot the operations are to leave alone.
Ineffective(slot) == slot.enabled = FALSE \/ slot.host = EmptyHost \/ slot.clip = ""

\* The commands task t has handed or will hand to a connection from where
\* it stands.
Commands(t) == {tasks[t].plan[n] : n \in 1..Len(tasks[t].plan)}

tcFrames(j) == timecodeToFrames(config.slots[j].timecode, config.fps)

\* C13: once t0 is set, the target frames of the rows of one snapshot are
\* those of one instant with each slot's start timecode added: for some
\* elapsed frame count e, every row has (e + tcFrames(slot)) mod frames.
C13_TargetFoldsTimecode ==
  \A t \in TaskIds :
    (~IsNull(t0) /\ tasks[t].rows # <<>>) =>
      \E e \in 0..(config.frames - 1) :
        \A k \in 1..Len(tasks[t].rows) :
          tasks[t].rows[k].targetFrame
            = (e + tcFrames(tasks[t].rows[k].index)) % config.frames

WellFormed(tc) == tc # NoTimecode /\ Len(tc) = 4 /\ \A k \in 1..4 : tc[k] \in TwoDigits

\* The number a two-digit field stands for.
Digits(v) == Val(parseIntField(v))

\* The SEEK frames startAll has computed from the timecode of slot 1.
StartFrames ==
  {c.val : c \in {d \in UNION {Commands(t) : t \in {u \in TaskIds : tasks[u].kind = "start"}} :
                    d.verb = "LOADBG"}}

\* (hh*3600 + mm*60 + ss) * fps + ff for the timecode of slot 1, times the
\* denominator of fps.
ScaledFrames ==
  LET tc == config.slots[1].timecode IN
  (Digits(tc[1]) * 3600 + Digits(tc[2]) * 60 + Digits(tc[3])) * config.fps.num
    + Digits(tc[4]) * config.fps.den

\* C15 as stated: for a well-formed timecode and every fps, the frame
\* number is exactly (hh*3600 + mm*60 + ss) * fps + ff.
C15_ExactFormula ==
  WellFormed(config.slots[1].timecode) =>
    \A f \in StartFrames : f * config.fps.den = ScaledFrames

\* C15: for a well-formed timecode and every fps, the frame number is the
\* integer part of (hh*3600 + mm*60 + ss) * fps + ff, the frames field
\* counted in full whatever the fps; for a whole fps that is the formula
\* itself.
C15_FlooredFormula ==
  WellFormed(config.slots[1].timecode) =>
    \A f \in StartFrames :
      /\ f * config.fps.den <= ScaledFrames
      /\ ScaledFrames < (f + 1) * config.fps.den
      /\ config.fps.den = 1 => f = ScaledFrames

\* 00:03:24:05 at 50 fps gives 10205.
C15_Witness ==
  /\ config.slots[1].timecode = <<"00", "03", "24", "05">>
  /\ config.fps = Rat(50, 1)
  /\ StartFrames = {10205}

\* C16: for a timecode that is not well-formed, the frame number is 0.
C16_MalformedGivesZero ==
  ~WellFormed(config.slots[1].timecode) => \A f \in StartFrames : f = 0

\* C17: a startAll in which a command failed has left t0 as it found it
\* (null before the first start).
C17_FailedStartKeepsClock ==
  \A t \in TaskIds :
    (tasks[t].kind = "start" /\ tasks[t].pc = "failed") => t0 = tasks[t].was

\* C18: the step of startAll that hands its first command to a connection
\* sets t0 to the clock of that instant, and t0 stays so while the startAll
\* hands out its further commands.
C18_ClockSetBeforeCommands ==
  [][\A t \in TaskIds :
       (tasks'[t].kind = "start" /\ tasks'[t].pc = "wait") =>
          IF tasks[t].kind = "start" THEN t0' = t0 ELSE t0' = Some(now)]_vars

\* A second start, one second after the first, is awaiting the reply to its
\* third command.
C18_Witness ==
  \E t \in TaskIds :
    /\ tasks[t].kind = "start" /\ tasks[t].pc = "wait" /\ tasks[t].ip = 3
    /\ tasks[t].was = Some(1) /\ t0 = Some(1001)

\* ------------------------------------------------------------------ C19

\* The two layers of slot j on its server, by the pair recorded for it.
ActiveLayer(j) ==
  LayerAt(remote.layers, <<ConnKey(config.slots[j].host, config.slots[j].port),
                           config.slots[j].channel, getPair(config, pairState, j).active>>)
StandbyLayer(j) ==
  LayerAt(remote.layers, <<ConnKey(config.slots[j].host, config.slots[j].port),
                           config.slots[j].channel, getPair(config, pairState, j).standby>>)

\* Slot j is Playing: the active layer plays, shown and heard, the standby
\* layer is paused, hidden and muted.
SlotPlaying(j) ==
  /\ ActiveLayer(j).playing /\ ActiveLayer(j).opacity = 1 /\ ActiveLayer(j).volume = 1
  /\ ~StandbyLayer(j).playing /\ StandbyLayer(j).opacity = 0 /\ StandbyLayer(j).volume = 0

\* C19: a resyncAll that begins while no effective slot is Playing hands no
\* command to any connection, leaves every pair as it is and has returned.
C19_ResyncWithoutPlayingIsNoOp ==
  [][\A t \in TaskIds :
       (/\ AllIdle
        /\ ~(\E j \in EffectiveSlots : SlotPlaying(j))
        /\ tasks'[t].kind = "resync")
       => /\ tasks'[t].pc = "done"
          /\ queue' = queue
          /\ \A j \in EffectiveSlots :
               getPair(config, pairState', j) = getPair(config, pairState, j)]_vars

\* ------------------------------------------------------------------ C20

\* Both layers of slot j are loaded with its clip.
SlotLoaded(j) ==
  /\ ActiveLayer(j).clip = config.slots[j].clip
  /\ StandbyLayer(j).clip = config.slots[j].clip

\* No operation is between its first command and its return.
Settled == \A t \in TaskIds : tasks[t].pc \in {"idle", "done", "failed"}

\* C20: once the operations that have ended, each begun after the one
\* before had returned and each successful, are a preload, a start, any
\* number of (pause, start) and then any number of resyncs, every effective
\* slot is Playing by its recorded pair and has its clip on both layers.
C20_SequenceLeavesPlaying ==
  (Settled /\ ran \in {"started", "resynced"})
    => \A j \in EffectiveSlots : SlotPlaying(j) /\ SlotLoaded(j)

\* Two slots on one connection after preload, start and resyncs that left
\* the first slot's pair exchanged.
C20_Witness ==
  /\ AllIdle /\ ran = "resynced"
  /\ Cardinality(EffectiveSlots) = 2 /\ Cardinality(connections) = 1
  /\ getPair(config, pairState, 1).active = config.slots[1].baseLayer + 10
  /\ \A j \in EffectiveSlots : SlotPlaying(j) /\ SlotLoaded(j)

\* ------------------------------------------------------------------ C21

\* Slot j is Preloaded on the layers given, by the pair given: both layers
\* hold its clip at frame 0, paused and hidden, the active one at volume 1
\* and the standby one at volume 0.
PreloadedIn(layers, pair, j) ==
  LET k == ConnKey(config.slots[j].host, config.slots[j].port)
      a == LayerAt(layers, <<k, config.slots[j].channel, pair.active>>)
      b == LayerAt(layers, <<k, config.slots[j].channel, pair.standby>>)
  IN /\ a.clip = config.slots[j].clip /\ a.frame = 0 /\ ~a.playing
     /\ a.opacity = 0 /\ a.volume = 1
     /\ b.clip = config.slots[j].clip /\ b.frame = 0 /\ ~b.playing
     /\ b.opacity = 0 /\ b.volume = 0

PreloadDone(t) == tasks[t].kind = "preload" /\ tasks[t].pc = "done"

\* The operation of task t began in a state where every effective slot was
\* Preloaded, as a successful preloadAll leaves it.
FoundPreloaded(t) ==
  \A j \in EffectiveSlots :
    PreloadedIn(Val(tasks[t].found).layers, Val(tasks[t].found).pairs[j], j)

NoEffectiveSlots == \A j \in 1..Len(config.slots) : Ineffective(config.slots[j])

SyncKinds == {"preload", "start", "pause", "resync"}

\* C22: with no effective slot, a preloadAll, startAll, pauseAll or
\* resyncAll that begins has returned without failing in the same step,
\* hands no command to any connection and makes no connection.
C22_NoSlotsNoTraffic ==
  [][\A t \in TaskIds :
       (NoEffectiveSlots /\ tasks[t].pc = "idle" /\ tasks'[t].kind \in SyncKinds)
       => /\ tasks'[t].pc = "done"
          /\ queue' = queue /\ wire' = wire
          /\ connections' = connections]_vars

\* A resyncAll has returned with no slot effective: one slot disabled, one
\* without a host.
C22_Witness ==
  /\ NoEffectiveSlots
  /\ \E t \in TaskIds : ResyncDone(t)
  /\ \E j \in 1..Len(config.slots) : ~config.slots[j].enabled
  /\ \E j \in 1..Len(config.slots) : config.slots[j].host = EmptyHost
  /\ connections = {}

\* ------------------------------------------------------------------ C23

\* The values that name a mode, whatever their case, and the mode named.
NamesMode(v) ==
  v.type = "string" /\ v.text \in {"off", "manual", "auto", "OFF", "Off", "AUTO", "Auto", "Manual", "MANUAL"}

ModeNamed(v) ==
  CASE v.text \in {"off", "OFF", "Off"} -> "off"
    [] v.text \in {"auto", "AUTO", "Auto"} -> "auto"
    [] OTHER -> "manual"

\* C23: a mode request whose value names none of off, manual and auto is
\* answered with a 4xx status and leaves the mode and the timer as they
\* are; a request whose value names one of them in any case sets it.
C23_ModeRequestValidated ==
  [][\A v \in ModeBodies :
       SetMode(v, TRUE) =>
         IF NamesMode(v) THEN autosyncMode' = ModeNamed(v)
         ELSE /\ ~IsNull(answer') /\ Val(answer') \in 400..499
              /\ UNCHANGED <<autosyncMode, autosyncTimer, intervals>>]_vars

\* ------------------------------------------------------------------ C24

\* The commands of a plan other than the DEFER and RESUME around them.
Inside(plan) == SelectSeq(plan, LAMBDA c : c.verb \notin {"DEFER", "RESUME"})

\* PAUSE of the given layer of slot j, on the slot's connection.
PauseOf(j, layer) ==
  Pause(SplitConn(ConnKey(config.slots[j].host, config.slots[j].port)),
        config.slots[j].channel, layer)

\* The plan is, inside its batches, PAUSE of the active and PAUSE of the
\* standby layer of every effective slot and nothing else.
PausesBothLayers(plan) ==
  /\ Len(Inside(plan)) = 2 * Cardinality(EffectiveSlots)
  /\ \A n \in 1..Len(Inside(plan)) : Inside(plan)[n].verb = "PAUSE"
  /\ \A j \in EffectiveSlots :
       /\ \E n \in 1..Len(plan) : plan[n] = PauseOf(j, getPair(config, pairState, j).active)
       /\ \E n \in 1..Len(plan) : plan[n] = PauseOf(j, getPair(config, pairState, j).standby)

\* C24: the commands pauseAll sends inside its batches are PAUSE of the
\* active and PAUSE of the standby layer of each effective slot, no others,
\* and no step of pauseAll changes t0, the mode or the pair of any slot.
C24_PauseOnlyPauses ==
  [][\A t \in TaskIds :
       tasks'[t].kind = "pause" =>
         /\ PausesBothLayers(tasks'[t].plan)
         /\ t0' = t0 /\ autosyncMode' = autosyncMode
         /\ pairView(config', pairState') = pairView(config, pairState)]_vars

\* A pauseAll over three effective slots has returned after a start and a
\* resync that exchanged the pairs.
C24_Witness ==
  \E t \in TaskIds :
    /\ tasks[t].kind = "pause" /\ tasks[t].pc = "done"
    /\ Cardinality(EffectiveSlots) = MaxSlots
    /\ ~IsNull(t0)
    /\ \A j \in EffectiveSlots : getPair(config, pairState, j).active = config.slots[j].baseLayer + 10

\* ------------------------------------------------------------------ C25

\* The connection of slot j.
SlotConn(j) == ConnKey(config.slots[j].host, config.slots[j].port)

\* Task t is in the arm phase of resyncAll.
Arming(t) == tasks[t].kind = "resync" /\ tasks[t].stage = "arm" /\ tasks[t].pc = "wait"

\* C25: a batch of the arm phase of resyncAll is the only one of that phase
\* on its connection, and it holds the load of the standby layer of every
\* effective slot of that connection.
C25_OneArmBatchPerConnection ==
  \A t \in TaskIds :
    Arming(t) =>
      /\ \A j \in tasks[t].armed : SlotConn(j) # awaitedConn(tasks[t])
      /\ \A j \in EffectiveSlots :
           SlotConn(j) = awaitedConn(tasks[t]) =>
             \E n \in 1..Len(tasks[t].plan) :
               /\ tasks[t].plan[n].verb = "LOADBG"
               /\ tasks[t].plan[n].ch = config.slots[j].channel
               /\ tasks[t].plan[n].layer = getPair(config, pairState, j).standby

\* ------------------------------------------------------------------ C26

\* Task t is in the swap of a slot.
Swapping(t) == tasks[t].kind = "resync" /\ tasks[t].stage = "swap" /\ tasks[t].pc = "wait"

\* What a command says: verb, layer, value, duration, tween.
Said(c) == <<c.verb, c.layer, c.val, c.dur, c.tween>>

\* The two batches of the swap of pair in the given mode.
TwoBatches(pair, mode, fadeFrames) ==
  LET d == IF mode = "fade" THEN fadeFrames ELSE 0
      w == IF mode = "fade" THEN "LINEAR" ELSE ""
  IN << <<"DEFER", 0, 0, 0, "">>,
        <<"PLAY", pair.standby, 0, 0, "">>,
        <<"OPACITY", pair.standby, 1, d, w>>,
        <<"VOLUME", pair.standby, 1, d, w>>,
        <<"OPACITY", pair.active, 0, d, w>>,
        <<"VOLUME", pair.active, 0, d, w>>,
        <<"RESUME", 0, 0, 0, "">>,
        <<"DEFER", 0, 0, 0, "">>,
        <<"PAUSE", pair.active, 0, 0, "">>,
        <<"RESUME", 0, 0, 0, "">> >>

\* C26: the commands of the swap of a slot are, in order, batch A (PLAY
\* standby, OPACITY 1 and VOLUME 1 on standby, OPACITY 0 and VOLUME 0 on
\* active, with duration 0 for a cut and fadeFrames LINEAR for a fade) and
\* then batch B holding only PAUSE of the old active layer, all on the
\* slot's connection and channel.
C26_SwapIsTwoBatches ==
  \A t \in TaskIds :
    Swapping(t) =>
      /\ [n \in 1..Len(tasks[t].plan) |-> Said(tasks[t].plan[n])]
           = TwoBatches(tasks[t].pair, tasks[t].mode, config.fadeFrames)
      /\ \A n \in 1..Len(tasks[t].plan) :
           /\ tasks[t].plan[n].conn = SlotConn(tasks[t].i)
           /\ tasks[t].plan[n].verb \notin {"DEFER", "RESUME"}
                => tasks[t].plan[n].ch = config.slots[tasks[t].i].channel

\* A fade is awaiting the reply to the PAUSE of batch B, for a slot whose
\* pair an earlier resync had exchanged.
C26_Witness ==
  \E t \in TaskIds :
    /\ Swapping(t) /\ tasks[t].mode = "fade" /\ tasks[t].ip = 9
    /\ tasks[t].pair.active = tasks[t].pair.baseLayer + 10

\* ------------------------------------------------------------------ C27

Envelope(c) == c.verb \in {"DEFER", "RESUME"}

\* The effective slots a command addresses: on its connection and channel,
\* with the layer one of the slot's two.
SlotsOf(c) ==
  {j \in EffectiveSlots :
     /\ SlotConn(j) = c.conn /\ config.slots[j].channel = c.ch
     /\ c.layer \in LayersOf(config.slots[j].baseLayer)}

\* The number of commands preloadAll, startAll and pauseAll send per slot.
PerItem(kind) == CASE kind = "preload" -> 8 [] kind = "start" -> 10 [] OTHER -> 2

\* The positions of plan p that go to connection k.
On(p, k) == {n \in 1..Len(p) : p[n].conn = k}

\* Plan p gives connection k one batch: its commands are one run of the
\* plan, a DEFER first, a RESUME last and none between; between them every
\* command addresses one effective slot of k, the slots come in increasing
\* index, and each effective slot of k has its PerItem commands.
OneBatch(p, k, kind) ==
  LET on == On(p, k)
      first == CHOOSE n \in on : \A m \in on : n <= m
      last == CHOOSE n \in on : \A m \in on : m <= n
  IN /\ on = first..last
     /\ \A n \in on :
          /\ p[n].verb = "DEFER" <=> n = first
          /\ p[n].verb = "RESUME" <=> n = last
          /\ ~Envelope(p[n]) => Cardinality(SlotsOf(p[n])) = 1
     /\ \A n \in (first + 1)..(last - 2) :
          \A a \in SlotsOf(p[n]) : \A b \in SlotsOf(p[n + 1]) : a <= b
     /\ \A j \in EffectiveSlots :
          SlotConn(j) = k =>
            Cardinality({n \in on : ~Envelope(p[n]) /\ j \in SlotsOf(p[n])}) = PerItem(kind)

\* C27: in preloadAll, startAll and pauseAll every connection of an
\* effective slot gets one DEFER, then the commands of its effective slots
\* slot after slot in increasing index, then one RESUME, and no command of
\* the plan goes to any other connection.
C27_OneBatchPerConnection ==
  \A t \in TaskIds :
    (tasks[t].kind \in {"preload", "start", "pause"} /\ tasks[t].stage = "batch")
    => /\ \A k \in {SlotConn(j) : j \in EffectiveSlots} :
            On(tasks[t].plan, k) # {} /\ OneBatch(tasks[t].plan, k, tasks[t].kind)
       /\ \A n \in 1..Len(tasks[t].plan) :
            tasks[t].plan[n].conn \in {SlotConn(j) : j \in EffectiveSlots}

\* A startAll over three slots, the first and third on one connection and
\* the second on another, is awaiting the DEFER of its second batch.
C27_Witness ==
  \E t \in TaskIds :
    /\ tasks[t].kind = "start" /\ tasks[t].pc = "wait"
    /\ Cardinality(EffectiveSlots) = MaxSlots
    /\ Cardinality({SlotConn(j) : j \in EffectiveSlots}) = 2
    /\ tasks[t].ip > 1 /\ tasks[t].plan[tasks[t].ip].verb = "DEFER"

\* ------------------------------------------------------------------ C28

\* The active layer of slot j as resyncAll task t found it: its key, by the
\* pair recorded when the call began.
FoundActive(t, j) == <<SlotConn(j), config.slots[j].channel, Val(tasks[t].found).pairs[j].active>>

\* Batch A of slot j has not been applied for task t.
BeforeBatchA(t, j) ==
  /\ j \notin tasks[t].swapped
  /\ tasks[t].stage = "arm" \/ tasks[t].i # j \/ tasks[t].ip <= BatchAEnd

\* C28: while resyncAll swaps, the arm batch of every effective slot has
\* completed; the commands of an arm batch address the standby layer of
\* their slot only; and until the batch A of a slot is applied, the slot's
\* active layer is on the server as the call found it.
C28_ArmBeforeAnySwap ==
  \A t \in TaskIds :
    /\ Swapping(t) => tasks[t].armed = EffectiveSlots
    /\ Arming(t) =>
         \A n \in 1..Len(tasks[t].plan) :
           ~Envelope(tasks[t].plan[n]) =>
             /\ tasks[t].plan[n].layer = getPair(config, pairState, tasks[t].i).standby
             /\ SlotsOf(tasks[t].plan[n]) = {tasks[t].i}
    /\ (Arming(t) \/ Swapping(t)) =>
         \A j \in EffectiveSlots :
           BeforeBatchA(t, j) =>
             LayerAt(remote.layers, FoundActive(t, j))
               = LayerAt(Val(tasks[t].found).layers, FoundActive(t, j))

\* The second of two slots is awaiting the RESUME of its batch A during a
\* resync of playing slots, the first one already swapped.
C28_Witness ==
  \E t \in TaskIds :
    /\ Swapping(t) /\ tasks[t].i = 2 /\ tasks[t].ip = BatchAEnd
    /\ tasks[t].swapped = {1} /\ tasks[t].armed = {1, 2}
    /\ LayerAt(remote.layers, FoundActive(t, 2)).playing
    /\ LayerAt(remote.layers, FoundActive(t, 2)).opacity = 1

\* ------------------------------------------------------------------ C29

\* Task record tk is in an arm batch, of a manual resync or of a tick.
InArm(tk) == tk.stage = "arm" /\ tk.pc = "wait"

\* The SEEK values of the LOADBG commands of the batch tk is in.
Seeks(tk) == {tk.plan[n].val : n \in {m \in 1..Len(tk.plan) : tk.plan[m].verb = "LOADBG"}}

IsIntegerText(text) ==
  LET from == IF text # <<>> /\ text[1] \in {"-", "+"} THEN 2 ELSE 1 IN
  /\ from <= Len(text)
  /\ \A n \in from..Len(text) : IsDigit(text[n])

\* C30: the row pushed for a frame query has, when the reply is an integer,
\* that integer as currentFrame and currentFrame - targetFrame as drift,
\* not reduced modulo the loop length; when the query fails or the reply
\* is no integer, currentFrame and drift are both null.
C30_DriftIsRawDifference ==
  [][\A t \in TaskIds : \A reply \in FrameReplies(MaxFrame) \cup TrailingReplies :
       (tasks[t].stage = "sample" /\ FrameReply(t, TRUE, reply)) =>
         LET row == tasks'[t].rows[Len(tasks[t].rows) + 1] IN
         IF reply.ok /\ IsIntegerText(reply.text)
         THEN /\ row.currentFrame = parseInt10(reply.text)
              /\ row.drift = Some(Val(row.currentFrame) - row.targetFrame)
         ELSE row.currentFrame = Null /\ row.drift = Null]_vars

\* ------------------------------------------------------------------ C31

\* C31: the handle autosyncTimer is set if and only if the mode is auto,
\* and the number of armed timers is one when it is set and none when not,
\* before, between and after mode and config requests.
C31_TimerIffAuto ==
  /\ autosyncTimer <=> autosyncMode = "auto"
  /\ intervals = IF autosyncTimer THEN 1 ELSE 0

\* The mode is auto and the loop was restarted by a config request that
\* changed the interval.
C31_Witness ==
  /\ alive /\ AllIdle
  /\ autosyncMode = "auto" /\ autosyncTimer /\ intervals = 1
  /\ config.autosyncIntervalSec = 5

\* ------------------------------------------------------------------ C32

\* The layers of slot j the server shows: playing the slot's clip at
\* opacity 1.
Shown(j) ==
  {l \in LayersOf(config.slots[j].baseLayer) :
     LET layer == LayerAt(remote.layers, <<SlotConn(j), config.slots[j].channel, l>>)
     IN layer.playing /\ layer.opacity = 1 /\ layer.clip = config.slots[j].clip}

\* C32: between operations run one at a time whose commands may be
\* rejected, an effective slot that the server shows on one of its layers
\* has a layer it is shown on recorded as active.
C32_RecordedActiveIsShown ==
  Settled =>
    \A j \in EffectiveSlots :
      Shown(j) # {} => getPair(config, pairState, j).active \in Shown(j)

\* C33: between operations no connection is inside a DEFER that was not
\* closed by a RESUME, also after an operation one of whose commands was
\* rejected: every batch an operation opened it has closed before it ends,
\* and no operation begins inside an open batch.
C33_NoBatchLeftOpen ==
  Settled => \A k \in AllKeys : IsNull(remote.pending[k])

\* The channel and pairs slot j was armed with by the resync of task record tk.
ArmedWith(tk, j) == {a \in tk.armedOn : a.slot = j}

\* C34: every layer command of the second phase of a resyncAll is for a
\* slot the same call armed, on the channel and one of the two layers the
\* slot was armed with, and when the call returns the slots it has swapped
\* are the slots it armed.
C34_SwapsWhatWasArmed ==
  [][\A t \in TaskIds :
       /\ (tasks'[t] # tasks[t] /\ tasks'[t].pc = "wait" /\ tasks'[t].stage = "swap"
             /\ awaitedCmd(tasks'[t]).layer # 0)
          => \E a \in ArmedWith(tasks'[t], tasks'[t].i) :
               /\ awaitedCmd(tasks'[t]).ch = a.ch
               /\ awaitedCmd(tasks'[t]).layer \in {a.pair.active, a.pair.standby}
       /\ (tasks[t].pc = "wait" /\ tasks[t].stage = "swap" /\ tasks'[t].pc = "done")
          => tasks'[t].swapped = tasks'[t].armed]_vars

\* C35: when resyncAll calls overlap, the layer a call starts playing in
\* its batch A is the standby layer this same call armed for the slot.
C35_PlaysWhatItArmed ==
  [][\A t \in TaskIds :
       (tasks'[t] # tasks[t] /\ tasks'[t].pc = "wait" /\ tasks'[t].stage = "swap"
          /\ awaitedCmd(tasks'[t]).verb = "PLAY")
       => \E a \in ArmedWith(tasks'[t], tasks'[t].i) :
            /\ awaitedCmd(tasks'[t]).ch = a.ch
            /\ awaitedCmd(tasks'[t]).layer = a.pair.standby]_vars

\* C36: once startAll has returned, and until it is answered, the pair of
\* every effective slot is {baseLayer, baseLayer + 10}, whatever a resync
\* begun before the start does meanwhile.
C36_StartLeavesCanonicalPairs ==
  \A t \in TaskIds :
    (tasks[t].kind = "start" /\ tasks[t].pc = "done") =>
      \A j \in EffectiveSlots :
        /\ getPair(config, pairState, j).active = config.slots[j].baseLayer
        /\ getPair(config, pairState, j).standby = config.slots[j].baseLayer + 10

\* C37: every command preloadAll, startAll, pauseAll, resyncAll and status
\* sampling await goes to the connection keyed by the host and port of an
\* effective slot, whatever host a configuration update has stored.
C37_CommandsOnSlotConnection ==
  \A t \in TaskIds :
    tasks[t].pc = "wait" => awaitedConn(tasks[t]) \in EffectiveConns

====
